---- MODULE Spec2Model ----
(***************************************************************************)
(* A state-machine model of the UnraWheel custom element                   *)
(* (src/unrawheel.js): the section model (#setData), the render            *)
(* reconciler (#render), the lock gate (toggleLockWheel), the selection    *)
(* resolver (#onKeyPress, #onSectionClick, #onSectionSelect) and the hover *)
(* tracker (#onSectionHover).                                              *)
(*                                                                         *)
(* Conventions                                                             *)
(*  - Indices are the 0-based indices of the JavaScript code; At(s, i) is  *)
(*    s[i] of the code.                                                    *)
(*  - #data is null or a non-empty array (line 244 rejects the empty       *)
(*    array), so null is modelled by the empty sequence NullData.          *)
(*  - #currSectionPointerRotation is kept in units of 360/#sectionCount    *)
(*    degrees (the code adds (360/#sectionCount) * distance and resets the *)
(*    value whenever #sectionCount changes).                               *)
(*  - #angleStep, #angleOffset and #keyDistanceFromCenter are functions of *)
(*    the section count they were computed from; angleStep holds that      *)
(*    count (0 for the initial value 0).                                   *)
(*  - A handler that throws is an operator returning threw = TRUE and the  *)
(*    state as the statements before the throw left it.                    *)
(***************************************************************************)
EXTENDS Integers, Sequences, FiniteSets, TLC

VARIABLES
   constructed,                 \* the constructor returned without throwing
   sectionCountOption,          \* the section-count attribute read at line 204
   keydownListeners,            \* keydown listeners of the document owned by the instance
   connected,                   \* the element is in the document
   staticSectionCount,          \* #staticSectionCount
   autoLockWheel,               \* #autoLockWheel
   data,                        \* #data
   sectionCount,                \* #sectionCount
   angleStep,                   \* the count #angleStep & co. were derived from
   prevHoverIndex,              \* #prevHoverIndex
   currSectionPointerRotation,  \* #currSectionPointerRotation, in steps
   isLocked,                    \* #isLocked
   svgLocked,                   \* this.svg carries class unrawheel--locked
   elements,                    \* #elements, one record per section index
   timers,                      \* per section element, the pending setTimeout
                                \* callbacks that captured it
   staleTimers,                 \* a pending setTimeout targets a discarded element
   event,                       \* the section-select event being dispatched
   last,                        \* history: the last operation that ran
   fnIn,                        \* argument of the pure function under test
   fnOut                        \* its result, <<>> before it is applied

wvars == <<staticSectionCount, autoLockWheel, data, sectionCount, angleStep,
           prevHoverIndex, currSectionPointerRotation, isLocked, svgLocked,
           elements, timers, staleTimers>>
vars == <<constructed, sectionCountOption, keydownListeners, connected, wvars,
          event, last, fnIn, fnOut>>

----------------------------------------------------------------------------
(* Bounds of the model *)

\* longest section list handed to setSections / the data attribute
MaxLen == 2
\* largest value of the section-count attribute
MaxCount == 2
\* the pointer rotation is followed up to this many steps either way
MaxRot == 1
\* largest section count the hover-distance function is applied to
MaxHoverCount == 8
\* longest list of the key-assignment specification; the default-key table
\* has 36 entries
MaxKeyListLen == 38

----------------------------------------------------------------------------
(* JavaScript values *)

NullData == <<>>
Undefined == "undefined"
NotString == "<not a string>"
\* the value of the back section's section-select event
BackValue == -1

At(s, i) == s[i + 1]
Abs(x) == IF x < 0 THEN 0 - x ELSE x
Min(S) == CHOOSE x \in S : \A y \in S : x <= y

defaultKeys ==
   << "a", "s", "d", "f", "g", "h", "j", "k", "l",
      "q", "w", "e", "r", "t", "y", "u", "i", "o", "p",
      "z", "x", "c", "v", "b", "n", "m",
      "1", "2", "3", "4", "5", "6", "7", "8", "9", "0" >>

\* this.#defaultKeys[i]
defaultKeyAt(i) == IF i < Len(defaultKeys) THEN At(defaultKeys, i) ELSE Undefined

\* String.prototype.length of the key strings the model uses
KeyLength(k) == IF k = "" THEN 0 ELSE IF k = "ab" THEN 2 ELSE 1

----------------------------------------------------------------------------
(* Inputs *)

\* a caller-supplied item: props is the set of its own properties
Item(props, v, t, img, k) ==
   [props |-> props, value |-> v, text |-> t, image |-> img, key |-> k]

\* two valid items: one that leaves its key to the default-key table, and
\* one that brings the key "s" (the default key of index 1)
ItemA == Item({"value", "text"}, 1, "one", "", "")
ItemB == Item({"value", "text", "key"}, 2, "two", "", "s")
ValidItems == {ItemA, ItemB}

InvalidItems ==
   { Item({"text"}, 1, "one", "", ""),                              \* no value
     Item({"value"}, 1, "", "", ""),                                \* no text
     Item({"value", "text"}, 1, NotString, "", ""),                 \* text: 5
     Item({"value", "text", "image"}, 1, "one", NotString, ""),     \* image: 5
     Item({"value", "text", "key"}, 1, "one", "", ""),              \* key: ''
     Item({"value", "text", "key"}, 1, "one", "", "ab"),            \* key: 'ab'
     Item({"value", "text", "key"}, 1, "one", "", NotString) }      \* key: 5

Lists(S, n) == UNION { [1..k -> S] : k \in 1..n }

\* lists of valid items
ValidLists == Lists(ValidItems, MaxLen)

\* lists with one invalid item, at any position among valid items
Pad(n) == [i \in 1..n |-> ItemA]
InvalidLists ==
   { Pad(t[1]) \o <<t[3]>> \o Pad(t[2]) :
        t \in { u \in (0..MaxLen) \X (0..MaxLen) \X InvalidItems :
                   u[1] + u[2] + 1 <= MaxLen } }

\* what setSections / the data attribute is handed
RawInputs ==
   { [type |-> "array", items |-> l] : l \in ValidLists \cup InvalidLists }
   \cup { [type |-> "array", items |-> <<>>],
          [type |-> "notarray", items |-> <<>>],
          [type |-> "badjson", items |-> <<>>] }

ValidInputs == { [type |-> "array", items |-> l] : l \in ValidLists }

\* keys the user presses
PressKeys == { At(defaultKeys, i) : i \in 0..(MaxLen - 1) } \cup {"Backspace", "x"}

\* the section-count attribute: absent, not a number, or a number
SectionCountAttrs ==
   { [kind |-> "absent", n |-> 0], [kind |-> "nan", n |-> 0] }
   \cup { [kind |-> "num", n |-> n] : n \in -1..MaxCount }

----------------------------------------------------------------------------
(* The widget as a record, so that a handler is an operator on it *)

W == [staticSectionCount |-> staticSectionCount,
      autoLockWheel |-> autoLockWheel,
      data |-> data,
      sectionCount |-> sectionCount,
      angleStep |-> angleStep,
      prevHoverIndex |-> prevHoverIndex,
      currSectionPointerRotation |-> currSectionPointerRotation,
      isLocked |-> isLocked,
      svgLocked |-> svgLocked,
      elements |-> elements,
      timers |-> timers,
      staleTimers |-> staleTimers]

Commit(w) ==
   /\ staticSectionCount' = w.staticSectionCount
   /\ autoLockWheel' = w.autoLockWheel
   /\ data' = w.data
   /\ sectionCount' = w.sectionCount
   /\ angleStep' = w.angleStep
   /\ prevHoverIndex' = w.prevHoverIndex
   /\ currSectionPointerRotation' = w.currSectionPointerRotation
   /\ isLocked' = w.isLocked
   /\ svgLocked' = w.svgLocked
   /\ elements' = w.elements
   /\ timers' = w.timers
   /\ staleTimers' = w.staleTimers

\* the field initialisers of the class
FieldDefaults ==
   [staticSectionCount |-> FALSE,
    autoLockWheel |-> FALSE,
    data |-> NullData,
    sectionCount |-> 0,
    angleStep |-> 0,
    prevHoverIndex |-> 0,
    currSectionPointerRotation |-> 0,
    isLocked |-> TRUE,
    svgLocked |-> FALSE,
    elements |-> <<>>,
    timers |-> <<>>,
    staleTimers |-> FALSE]

Returned(w) == [threw |-> FALSE, w |-> w]
Thrown(w) == [threw |-> TRUE, w |-> w]

----------------------------------------------------------------------------
(* #setData: validate and normalise the list, update count and constants *)

\* mutant: compares the length with the count instead of count - 1
tooManyOptionsOffByOne(w, items) ==
   w.staticSectionCount /\ Len(items) > w.sectionCount

\* line 245: too many options for a fixed section count
tooManyOptions(w, items) ==
   w.staticSectionCount /\ Len(items) > w.sectionCount - 1

\* line 264: a key that is present must be a string of length 1
invalidKey(k) == k = NotString \/ KeyLength(k) # 1

\* lines 247-267: the callback of data.map; i is the 0-based index
parseUnraWheelData(item, i) ==
   LET bad == [threw |-> TRUE, item |-> [key |-> "", value |-> 0, text |-> ""]]
       ok(k) == [threw |-> FALSE,
                 item |-> [key |-> k, value |-> item.value, text |-> item.text]]
   IN IF "value" \notin item.props THEN bad
      ELSE IF "text" \notin item.props THEN bad
      ELSE IF item.text = NotString THEN bad
      ELSE IF "image" \in item.props /\ item.image = NotString THEN bad
      ELSE IF "key" \notin item.props THEN ok(defaultKeyAt(i))
      ELSE IF invalidKey(item.key) THEN bad
      ELSE ok(item.key)

\* lines 270-273: the section count after new data
newSectionCount(w, newData) ==
   IF ~w.staticSectionCount THEN Len(newData) + 1 ELSE w.sectionCount

\* mutant: resets the interaction state on every update
countChangedAlways(prevSegCount, count) == TRUE

\* mutant: the interaction state survives a change of the count
countChangedNever(prevSegCount, count) == FALSE

\* line 276: the interaction state is reset when the count changed
countChanged(prevSegCount, count) == prevSegCount # count

\* mutant: stores the items parsed before the one that is rejected
setDataPartial(w, raw) ==
   IF raw.type # "array" THEN Thrown(w)
   ELSE IF Len(raw.items) = 0 THEN Thrown(w)
   ELSE IF tooManyOptions(w, raw.items) THEN Thrown(w)
   ELSE
      LET parsed == [i \in 1..Len(raw.items) |-> parseUnraWheelData(raw.items[i], i - 1)]
          bad == { i \in 1..Len(raw.items) : parsed[i].threw }
          n == IF bad = {} THEN Len(raw.items) ELSE Min(bad) - 1
          newData == [i \in 1..n |-> parsed[i].item]
          count == newSectionCount(w, newData)
          reset == countChanged(w.sectionCount, count)
      IN IF bad # {} /\ n = 0 THEN Thrown(w)
         ELSE [threw |-> bad # {},
               w |-> [w EXCEPT
                  !.data = newData,
                  !.sectionCount = count,
                  !.prevHoverIndex = IF reset THEN 0 ELSE @,
                  !.currSectionPointerRotation = IF reset THEN 0 ELSE @,
                  !.angleStep = count]]

setData(w, raw) ==
   IF raw.type = "badjson" THEN Thrown(w)
   ELSE IF raw.type # "array" THEN Thrown(w)
   ELSE IF Len(raw.items) = 0 THEN Thrown(w)
   ELSE IF tooManyOptions(w, raw.items) THEN Thrown(w)
   ELSE
      LET parsed == [i \in 1..Len(raw.items) |-> parseUnraWheelData(raw.items[i], i - 1)]
      IN IF \E i \in 1..Len(raw.items) : parsed[i].threw THEN Thrown(w)
         ELSE
            LET newData == [i \in 1..Len(raw.items) |-> parsed[i].item]
                prevSegCount == w.sectionCount
                count == newSectionCount(w, newData)
                reset == countChanged(prevSegCount, count)
            IN Returned([w EXCEPT
                  !.data = newData,
                  !.sectionCount = count,
                  !.prevHoverIndex = IF reset THEN 0 ELSE @,
                  !.currSectionPointerRotation = IF reset THEN 0 ELSE @,
                  !.angleStep = count])

----------------------------------------------------------------------------
(* toggleLockWheel *)

tabindexFor(locked) == IF locked THEN "-1" ELSE "0"

\* mutant: the links keep the tabindex they were created with
toggleLockWheelKeepsTabindex(w, toggleLock) ==
   IF toggleLock = w.isLocked THEN w
   ELSE [w EXCEPT !.isLocked = toggleLock, !.svgLocked = toggleLock]

toggleLockWheel(w, toggleLock) ==
   IF toggleLock = w.isLocked THEN w
   ELSE [w EXCEPT
           !.isLocked = toggleLock,
           !.svgLocked = toggleLock,
           !.elements = [i \in 1..Len(w.elements) |->
                           [w.elements[i] EXCEPT !.tabindex = tabindexFor(toggleLock)]]]

----------------------------------------------------------------------------
(* #render *)

\* the elements created for index i by the rebuild loop (lines 618-689)
createElements(w, i) ==
   [selected |-> FALSE,                     \* sections[i] class section--selected
    empty |-> FALSE,                        \* sections[i] class section--empty
    tabindex |-> tabindexFor(w.isLocked),   \* links[i], #createLinkElement
    display |-> TRUE,                       \* links[i] display attribute
    keyText |-> "",                         \* keyTexts[i].textContent
    contentText |-> ""]                     \* contentTexts[i].textContent

\* lines 600-704: discard the elements and create one set per index;
\* timeouts that captured a discarded element stay pending
rebuild(w) ==
   [w EXCEPT
      !.elements = [i \in 1..w.sectionCount |-> createElements(w, i - 1)],
      !.staleTimers = @ \/ (\E j \in 1..Len(w.timers) : w.timers[j] > 0),
      !.timers = [i \in 1..w.sectionCount |-> 0]]

\* line 713
isBlankSection(w, i) == i # w.sectionCount - 1 /\ i > Len(w.data) - 1

\* line 745 calls this.indexToDefaultKey, which reads this.defaultKeys.length
\* of a property that does not exist: a TypeError
keyTextThrows(w, i) ==
   /\ i # w.sectionCount - 1
   /\ ~isBlankSection(w, i)
   /\ At(w.data, i).key = Undefined

\* mutant: a blank section is marked empty but keeps its texts
setContentsKeepsTexts(w, e, i) ==
   LET isBackSection == i = w.sectionCount - 1
   IN IF isBlankSection(w, i)
      THEN [e EXCEPT !.display = FALSE, !.empty = TRUE]
      ELSE [e EXCEPT
              !.empty = FALSE,
              !.contentText = IF isBackSection THEN "" ELSE At(w.data, i).text,
              !.keyText = IF isBackSection THEN "" ELSE At(w.data, i).key,
              !.display = TRUE]

\* lines 707-760, one iteration that completes
setContents(w, e, i) ==
   LET isBackSection == i = w.sectionCount - 1
   IN IF isBlankSection(w, i)
      THEN [e EXCEPT !.contentText = "", !.keyText = "", !.display = FALSE, !.empty = TRUE]
      ELSE [e EXCEPT
              !.empty = FALSE,
              !.contentText = IF isBackSection THEN "" ELSE At(w.data, i).text,
              !.keyText = IF isBackSection THEN "" ELSE At(w.data, i).key,
              !.display = TRUE]

\* the iteration that throws at line 745, after lines 740-743
setContentsUntilThrow(w, e, i) ==
   [e EXCEPT !.empty = FALSE, !.contentText = At(w.data, i).text]

render(w0, sectionCountChanged) ==
   LET w == IF sectionCountChanged THEN rebuild(w0) ELSE w0
       throwing == { i \in 0..(w.sectionCount - 1) : keyTextThrows(w, i) }
       stop == IF throwing = {} THEN w.sectionCount ELSE Min(throwing)
       els == [j \in 1..Len(w.elements) |->
                 IF j - 1 < stop /\ j - 1 < w.sectionCount
                 THEN setContents(w, w.elements[j], j - 1)
                 ELSE IF j - 1 = stop
                      THEN setContentsUntilThrow(w, w.elements[j], j - 1)
                      ELSE w.elements[j]]
   IN [threw |-> throwing # {}, w |-> [w EXCEPT !.elements = els]]

----------------------------------------------------------------------------
(* setSections *)

\* line 296
unlocksOnSet(w) == w.autoLockWheel

\* mutant: the first data does not count as a change of the section count
setSectionsKeepsElements(w, raw) ==
   LET prevSegCount == w.sectionCount
       s == setData(w, raw)
   IN IF s.threw THEN s
      ELSE LET r == render(s.w, prevSegCount # s.w.sectionCount)
           IN IF r.threw THEN r
              ELSE IF unlocksOnSet(r.w) THEN Returned(toggleLockWheel(r.w, FALSE))
              ELSE r

setSections(w, raw) ==
   LET prevSegCount == IF w.data = NullData THEN 0 ELSE w.sectionCount
       s == setData(w, raw)
   IN IF s.threw THEN s
      ELSE LET r == render(s.w, prevSegCount # s.w.sectionCount)
           IN IF r.threw THEN r
              ELSE IF unlocksOnSet(r.w) THEN Returned(toggleLockWheel(r.w, FALSE))
              ELSE r

----------------------------------------------------------------------------
(* #onSectionSelect *)

Selected(threw, ev, w) == [threw |-> threw, event |-> ev, w |-> w]

\* line 397: last section is the back button
isBackSection(w, sectionIndex) == sectionIndex = Len(w.elements) - 1

\* this.#data[sectionIndex] === undefined
dataUndefinedAt(w, sectionIndex) ==
   sectionIndex < 0 \/ sectionIndex > Len(w.data) - 1

\* mutant: only the empty key makes a section unselectable
notSelectableKeyOnly(w, sectionIndex) ==
   ~dataUndefinedAt(w, sectionIndex) /\ At(w.data, sectionIndex).key = ""

\* line 399: sections without data or with an empty key are not selectable
notSelectable(w, sectionIndex) ==
   dataUndefinedAt(w, sectionIndex) \/ At(w.data, sectionIndex).key = ""

\* mutant: every selection schedules a callback
startPulseAlways(w, sectionIndex) ==
   [w EXCEPT
      !.elements[sectionIndex + 1].selected = TRUE,
      !.timers[sectionIndex + 1] = @ + 1]

\* lines 403-408: start the pulse unless the section is already pulsing
startPulse(w, sectionIndex) ==
   IF At(w.elements, sectionIndex).selected THEN w
   ELSE [w EXCEPT
           !.elements[sectionIndex + 1].selected = TRUE,
           !.timers[sectionIndex + 1] = @ + 1]

\* mutant: a selection never locks the wheel
locksOnSelectNever(w) == FALSE

\* line 410
locksOnSelect(w) == w.autoLockWheel

\* mutant: the value of the first section, whatever the index
detailValueFirst(w, sectionIndex) ==
   IF sectionIndex = -1 \/ sectionIndex = w.sectionCount - 1
   THEN BackValue
   ELSE At(w.data, 0).value

\* line 415: the detail of the event
detailValue(w, sectionIndex) ==
   IF sectionIndex = -1 \/ sectionIndex = w.sectionCount - 1
   THEN BackValue
   ELSE At(w.data, sectionIndex).value

onSectionSelect(w, sectionIndex) ==
   IF ~isBackSection(w, sectionIndex) /\ w.data = NullData
   THEN Selected(TRUE, <<>>, w)                    \* line 399 indexes null
   ELSE IF ~isBackSection(w, sectionIndex) /\ notSelectable(w, sectionIndex)
   THEN Selected(FALSE, <<>>, w)
   ELSE IF sectionIndex < 0 \/ sectionIndex > Len(w.elements) - 1
   THEN Selected(TRUE, <<>>, w)                    \* line 403: elem is undefined
   ELSE
      LET w1 == startPulse(w, sectionIndex)
          w2 == IF locksOnSelect(w1) THEN toggleLockWheel(w1, TRUE) ELSE w1
      IN IF sectionIndex # -1 /\ sectionIndex # w.sectionCount - 1
            /\ dataUndefinedAt(w, sectionIndex)
         THEN Selected(TRUE, <<>>, w2)             \* line 415 reads .value of undefined
         ELSE Selected(FALSE, <<detailValue(w2, sectionIndex)>>, w2)

----------------------------------------------------------------------------
(* #onKeyPress, #onSectionClick *)

\* mutant: the last section with the key
findLastIndex(d, key) ==
   LET hits == { i \in 0..(Len(d) - 1) : At(d, i).key = key }
   IN IF hits = {} THEN -1 ELSE CHOOSE x \in hits : \A y \in hits : y <= x

\* line 329: this.#data.findIndex((item) => item.key === key), -1 when none
findIndex(d, key) ==
   LET hits == { i \in 0..(Len(d) - 1) : At(d, i).key = key }
   IN IF hits = {} THEN -1 ELSE Min(hits)

\* mutant: key presses are handled while locked
keysIgnoredNever(w) == FALSE

\* line 322
keysIgnored(w) == w.isLocked

onKeyPress(w, key) ==
   IF keysIgnored(w) THEN Selected(FALSE, <<>>, w)
   ELSE IF key = "Backspace" THEN onSectionSelect(w, Len(w.elements) - 1)
   ELSE IF w.data = NullData THEN Selected(TRUE, <<>>, w)   \* findIndex of null
   ELSE LET index == findIndex(w.data, key)
        IN IF index # -1 THEN onSectionSelect(w, index) ELSE Selected(FALSE, <<>>, w)

onSectionClick(w, index) == onSectionSelect(w, index)

----------------------------------------------------------------------------
(* #onSectionHover *)

\* mutant: the direct distance, without the wrap-around candidates
hoverDistanceDirect(count, prev, index) == index - prev

\* mutant: the backward wrap is one step short
hoverDistanceWrapShort(count, prev, index) ==
   LET distThroughZero == count - prev + index
       distThroughZeroReverse == -(count - 1 + prev - index)
       distDirect == index - prev
       step(dist, cur) == IF Abs(dist) < Abs(cur) THEN dist ELSE cur
   IN step(step(distThroughZero, distThroughZeroReverse), distDirect)

\* lines 355-361: the reduce starts from distThroughZero and keeps the
\* accumulator only when it is strictly smaller in magnitude
hoverDistance(count, prev, index) ==
   LET distThroughZero == count - prev + index
       distThroughZeroReverse == -(count + prev - index)
       distDirect == index - prev
       step(dist, cur) == IF Abs(dist) < Abs(cur) THEN dist ELSE cur
   IN step(step(distThroughZero, distThroughZeroReverse), distDirect)

\* line 352
hoverRejected(w, index) ==
   index > Len(w.data) - 1 /\ index # w.sectionCount - 1

\* mutant: a blank filler index moves the pointer like any other
onSectionHoverAcceptsBlank(w, index) ==
   IF index = w.prevHoverIndex THEN Returned(w)
   ELSE IF w.data = NullData THEN Thrown(w)
   ELSE Returned([w EXCEPT
           !.currSectionPointerRotation =
              @ + hoverDistance(w.sectionCount, w.prevHoverIndex, index),
           !.prevHoverIndex = index])

onSectionHover(w, index) ==
   IF index = w.prevHoverIndex THEN Returned(w)
   ELSE IF w.data = NullData THEN Thrown(w)
   ELSE IF hoverRejected(w, index) THEN Returned(w)
   ELSE Returned([w EXCEPT
           !.currSectionPointerRotation =
              @ + hoverDistance(w.sectionCount, w.prevHoverIndex, index),
           !.prevHoverIndex = index])

----------------------------------------------------------------------------
(* the setTimeout callback of line 405 *)

pulseTimeout(w, i) ==
   [w EXCEPT !.elements[i + 1].selected = FALSE, !.timers[i + 1] = @ - 1]

\* the same callback when a rebuild has discarded the element it captured:
\* the class is removed from the detached element; more tells whether other
\* such callbacks remain pending
staleTimeout(w, i, more) == [w EXCEPT !.staleTimers = more]

----------------------------------------------------------------------------
(* constructor *)

Attrs ==
   [dynamic : BOOLEAN, sectionCount : SectionCountAttrs, autoLock : BOOLEAN,
    hasData : {FALSE}, data : {[type |-> "array", items |-> <<>>]}]
   \cup
   [dynamic : BOOLEAN, sectionCount : SectionCountAttrs, autoLock : BOOLEAN,
    hasData : {TRUE}, data : RawInputs]

\* mutant: data at construction leaves the initial lock state
isLockedAfterDataKept(w) == w.isLocked

\* line 217: #isLocked once the data attribute was accepted
isLockedAfterData(w) == FALSE

\* line 206: !Number(sectionCountOption) > 0 compares the negation with 0
sectionCountRejected(a) == a.kind = "nan" \/ a.n = 0

construct(attrs) ==
   LET w0 == FieldDefaults
   IN IF ~attrs.dynamic /\ attrs.sectionCount.kind = "absent" THEN Thrown(w0)
      ELSE IF ~attrs.dynamic /\ sectionCountRejected(attrs.sectionCount) THEN Thrown(w0)
      ELSE
         LET w1 == IF ~attrs.dynamic
                   THEN [w0 EXCEPT !.staticSectionCount = TRUE,
                                   !.sectionCount = attrs.sectionCount.n + 1]
                   ELSE w0
             w2 == [w1 EXCEPT !.autoLockWheel = attrs.autoLock]
         IN IF ~attrs.hasData THEN Returned(w2)
            ELSE LET s == setData(w2, attrs.data)
                 IN IF s.threw THEN Thrown(w0)
                    ELSE LET r == render([s.w EXCEPT !.isLocked = isLockedAfterData(s.w)], TRUE)
                         IN IF r.threw THEN Thrown(w0) ELSE r

\* line 225: document.addEventListener('keydown', this.#onKeyPress), the last
\* statement of the constructor; n is the number of listeners registered
addKeydownListener(n) == n + 1

\* mutant: the callback leaves the listener registered
disconnectedCallbackKeeps(n) == n

\* lines 767-769: document.removeEventListener('keydown', this.#onKeyPress)
disconnectedCallback(n) == 0

\* a keydown event of the document reaches #onKeyPress once per listener;
\* the code registers at most one
dispatchKeydown(w, n, key) ==
   IF n > 0 THEN onKeyPress(w, key) ELSE Selected(FALSE, <<>>, w)

----------------------------------------------------------------------------
(* The state machine *)

Last(op, index, key, flag, threw, emitted) ==
   [op |-> op, index |-> index, key |-> key, flag |-> flag, threw |-> threw,
    emitted |-> emitted]

Indices == 0..(Len(elements) - 1)
Idle == constructed /\ event = <<>>
WithinBounds(w) == Abs(w.currSectionPointerRotation) <= MaxRot

Init ==
   \E attrs \in Attrs :
      LET c == construct(attrs)
      IN /\ constructed = ~c.threw
         /\ keydownListeners = IF c.threw THEN 0 ELSE addKeydownListener(0)
         /\ connected = TRUE
         /\ sectionCountOption =
               IF attrs.dynamic THEN [kind |-> "absent", n |-> 0] ELSE attrs.sectionCount
         /\ staticSectionCount = c.w.staticSectionCount
         /\ autoLockWheel = c.w.autoLockWheel
         /\ data = c.w.data
         /\ sectionCount = c.w.sectionCount
         /\ angleStep = c.w.angleStep
         /\ prevHoverIndex = c.w.prevHoverIndex
         /\ currSectionPointerRotation = c.w.currSectionPointerRotation
         /\ isLocked = c.w.isLocked
         /\ svgLocked = c.w.svgLocked
         /\ elements = c.w.elements
         /\ timers = c.w.timers
         /\ staleTimers = c.w.staleTimers
         /\ event = <<>>
         /\ last = Last("constructor", 0, "", attrs.hasData, c.threw, <<>>)
         /\ fnIn = <<>>
         /\ fnOut = <<>>

\* history: where a setSections call threw
thrownBy(w, raw) ==
   IF setData(w, raw).threw THEN "setData"
   ELSE IF setSections(w, raw).threw THEN "render" ELSE ""

\* history: the index a key press resolves to, -1 when it resolves to none
resolved(w, key) ==
   IF w.isLocked THEN -1
   ELSE IF key = "Backspace" THEN Len(w.elements) - 1
   ELSE findIndex(w.data, key)

\* the public method, and attributeChangedCallback for the data attribute
SetSections(raw) ==
   /\ Idle
   /\ LET r == setSections(W, raw)
      IN /\ Commit(r.w)
         /\ last' = Last("setSections", prevHoverIndex, thrownBy(W, raw), FALSE, r.threw,
                         <<>>)
   /\ UNCHANGED <<constructed, sectionCountOption, keydownListeners, connected, event, fnIn, fnOut>>

ToggleLockWheel(toggleLock) ==
   /\ Idle
   /\ Commit(toggleLockWheel(W, toggleLock))
   /\ last' = Last("toggleLockWheel", 0, "", toggleLock, FALSE, <<>>)
   /\ UNCHANGED <<constructed, sectionCountOption, keydownListeners, connected, event, fnIn, fnOut>>

\* a selection input: commit the handler and start dispatching its event
Select(op, index, key, r) ==
   /\ WithinBounds(r.w)
   /\ Commit(r.w)
   /\ event' = r.event
   /\ last' = Last(op, index, key, isLocked, r.threw, r.event)
   /\ UNCHANGED <<constructed, sectionCountOption, keydownListeners, connected, fnIn, fnOut>>

\* the element is removed from the document: disconnectedCallback runs
Disconnect ==
   /\ Idle
   /\ connected
   /\ connected' = FALSE
   /\ keydownListeners' = disconnectedCallback(keydownListeners)
   /\ last' = Last("disconnect", 0, "", FALSE, FALSE, <<>>)
   /\ UNCHANGED <<constructed, sectionCountOption, wvars, event, fnIn, fnOut>>

\* the element is inserted again; the class defines no connectedCallback
Connect ==
   /\ Idle
   /\ ~connected
   /\ connected' = TRUE
   /\ last' = Last("connect", 0, "", FALSE, FALSE, <<>>)
   /\ UNCHANGED <<constructed, sectionCountOption, keydownListeners, wvars, event,
                  fnIn, fnOut>>

\* keydown on the document, heard by the instance while its listener is
\* registered
KeyPress(key) ==
   /\ Idle
   /\ IF keydownListeners > 0
      THEN Select("key", resolved(W, key), key, dispatchKeydown(W, keydownListeners, key))
      ELSE Select("keyUnheard", -1, key, dispatchKeydown(W, keydownListeners, key))

\* click on a section path; the locked class sets pointer-events: none
ClickSection(index) ==
   /\ Idle
   /\ connected
   /\ ~svgLocked
   /\ Select("click", index, "", onSectionClick(W, index))

\* Enter on a focused link: links with tabindex -1 or display none are
\* not reached by tabbing
ActivateLink(index) ==
   /\ Idle
   /\ connected
   /\ At(elements, index).tabindex = "0"
   /\ At(elements, index).display
   /\ Select("link", index, "", onSectionClick(W, index))

\* mouseenter on a section path
HoverSection(index) ==
   /\ Idle
   /\ connected
   /\ ~svgLocked
   /\ LET r == onSectionHover(W, index)
      IN /\ WithinBounds(r.w)
         /\ Commit(r.w)
         /\ last' = Last("hover", index, "", isLocked, r.threw, <<>>)
   /\ UNCHANGED <<constructed, sectionCountOption, keydownListeners, connected, event, fnIn, fnOut>>

PulseTimeout(index) ==
   /\ Idle
   /\ index \in Indices
   /\ At(timers, index) > 0
   /\ Commit(pulseTimeout(W, index))
   /\ last' = Last("timeout", index, "", FALSE, FALSE, <<>>)
   /\ UNCHANGED <<constructed, sectionCountOption, keydownListeners, connected, event, fnIn, fnOut>>

\* a timeout whose element was discarded by a rebuild; index is the index
\* the element had
StaleTimeout(index, more) ==
   /\ Idle
   /\ staleTimers
   /\ Commit(staleTimeout(W, index, more))
   /\ last' = Last("staleTimeout", index, "", FALSE, FALSE, <<>>)
   /\ UNCHANGED <<constructed, sectionCountOption, keydownListeners, connected, event, fnIn, fnOut>>

\* the section-select listener of the page runs inside dispatchEvent; it may
\* call the public methods (the demo calls setSections) before it returns
ListenerSetSections(raw) ==
   /\ constructed
   /\ event # <<>>
   /\ LET r == setSections(W, raw)
      IN /\ Commit(r.w)
         /\ last' = Last("setSections", prevHoverIndex, thrownBy(W, raw), TRUE, r.threw,
                         <<>>)
   /\ UNCHANGED <<constructed, sectionCountOption, keydownListeners, connected, event, fnIn, fnOut>>

ListenerToggleLockWheel(toggleLock) ==
   /\ constructed
   /\ event # <<>>
   /\ Commit(toggleLockWheel(W, toggleLock))
   /\ last' = Last("toggleLockWheel", 0, "", toggleLock, FALSE, <<>>)
   /\ UNCHANGED <<constructed, sectionCountOption, keydownListeners, connected, event, fnIn, fnOut>>

ListenerReturn ==
   /\ constructed
   /\ event # <<>>
   /\ event' = <<>>
   /\ UNCHANGED <<constructed, sectionCountOption, keydownListeners, connected, wvars, last, fnIn, fnOut>>

Next ==
   \/ \E raw \in RawInputs : SetSections(raw)
   \/ \E b \in BOOLEAN : ToggleLockWheel(b)
   \/ \E key \in PressKeys : KeyPress(key)
   \/ \E index \in Indices : ClickSection(index)
   \/ \E index \in Indices : ActivateLink(index)
   \/ \E index \in Indices : HoverSection(index)
   \/ \E index \in Indices : PulseTimeout(index)
   \/ \E index \in Indices, more \in BOOLEAN : StaleTimeout(index, more)
   \/ \E raw \in RawInputs : ListenerSetSections(raw)
   \/ \E b \in BOOLEAN : ListenerToggleLockWheel(b)
   \/ ListenerReturn
   \/ Disconnect
   \/ Connect

Spec == Init /\ [][Next]_vars

\* every index a section element can have within the bounds
AllIndices == 0..(IF MaxLen > MaxCount THEN MaxLen ELSE MaxCount)

\* the event loop: a listener returns, and a timeout that is due runs once
\* the call stack is empty, however often other input gets in before it
SpecFair ==
   /\ Spec
   /\ WF_vars(ListenerReturn)
   /\ \A i \in AllIndices : SF_vars(PulseTimeout(i))

----------------------------------------------------------------------------
(* The hover distance as a function of its own: every count and every pair *)
(* of indices, whether or not a wheel state reaches the pair               *)

HoverInputs ==
   { <<n, p, i>> : n \in 1..MaxHoverCount, p \in 0..(MaxHoverCount - 1),
                   i \in 0..(MaxHoverCount - 1) }

InitHover ==
   /\ constructed = FALSE
   /\ sectionCountOption = [kind |-> "absent", n |-> 0]
   /\ keydownListeners = 0
   /\ connected = FALSE
   /\ staticSectionCount = FieldDefaults.staticSectionCount
   /\ autoLockWheel = FieldDefaults.autoLockWheel
   /\ data = FieldDefaults.data
   /\ sectionCount = FieldDefaults.sectionCount
   /\ angleStep = FieldDefaults.angleStep
   /\ prevHoverIndex = FieldDefaults.prevHoverIndex
   /\ currSectionPointerRotation = FieldDefaults.currSectionPointerRotation
   /\ isLocked = FieldDefaults.isLocked
   /\ svgLocked = FieldDefaults.svgLocked
   /\ elements = FieldDefaults.elements
   /\ timers = FieldDefaults.timers
   /\ staleTimers = FieldDefaults.staleTimers
   /\ event = <<>>
   /\ last = Last("hoverDistance", 0, "", FALSE, FALSE, <<>>)
   /\ fnIn \in { t \in HoverInputs : t[2] < t[1] /\ t[3] < t[1] }
   /\ fnOut = <<>>

ApplyHoverDistance ==
   /\ fnIn # <<>>
   /\ fnOut = <<>>
   /\ fnOut' = <<hoverDistance(fnIn[1], fnIn[2], fnIn[3])>>
   /\ UNCHANGED <<constructed, sectionCountOption, keydownListeners, connected, wvars, event, last, fnIn>>

NextHover == ApplyHoverDistance

SpecHover == InitHover /\ [][NextHover]_vars

----------------------------------------------------------------------------
(* Default keys of long lists: a wheel constructed without data is handed a *)
(* list of n sections, none or the last of which brings its own key        *)

\* n items, without key or all but the last without key
LongList(n, lastHasKey) ==
   [i \in 1..n |-> IF lastHasKey /\ i = n THEN ItemB ELSE ItemA]

KeyInputs == (1..MaxKeyListLen) \X BOOLEAN

InitKeys ==
   \E dynamic \in BOOLEAN, autoLock \in BOOLEAN, in \in KeyInputs :
      LET c == construct([dynamic |-> dynamic,
                          sectionCount |-> [kind |-> "num", n |-> in[1]],
                          autoLock |-> autoLock, hasData |-> FALSE,
                          data |-> [type |-> "array", items |-> <<>>]])
      IN /\ constructed = ~c.threw
         /\ keydownListeners = IF c.threw THEN 0 ELSE addKeydownListener(0)
         /\ connected = TRUE
         /\ sectionCountOption =
               IF dynamic THEN [kind |-> "absent", n |-> 0]
               ELSE [kind |-> "num", n |-> in[1]]
         /\ staticSectionCount = c.w.staticSectionCount
         /\ autoLockWheel = c.w.autoLockWheel
         /\ data = c.w.data
         /\ sectionCount = c.w.sectionCount
         /\ angleStep = c.w.angleStep
         /\ prevHoverIndex = c.w.prevHoverIndex
         /\ currSectionPointerRotation = c.w.currSectionPointerRotation
         /\ isLocked = c.w.isLocked
         /\ svgLocked = c.w.svgLocked
         /\ elements = c.w.elements
         /\ timers = c.w.timers
         /\ staleTimers = c.w.staleTimers
         /\ event = <<>>
         /\ last = Last("constructor", 0, "", FALSE, c.threw, <<>>)
         /\ fnIn = in
         /\ fnOut = <<>>

\* setSections with the list fnIn describes
SetLongSections ==
   /\ Idle
   /\ fnOut = <<>>
   /\ LET raw == [type |-> "array", items |-> LongList(fnIn[1], fnIn[2])]
          r == setSections(W, raw)
      IN /\ Commit(r.w)
         /\ last' = Last("setSections", 0, thrownBy(W, raw), FALSE, r.threw, <<>>)
         /\ fnOut' = <<r.threw>>
   /\ UNCHANGED <<constructed, sectionCountOption, keydownListeners, connected, event, fnIn>>

NextKeys == SetLongSections

SpecKeys == InitKeys /\ [][NextKeys]_vars

----------------------------------------------------------------------------
(* Properties *)

SelectOps == {"key", "click", "link"}

\* the step is a key press, a click on a section or the activation of a link
SelectStep == constructed /\ event = <<>> /\ last'.op \in SelectOps

\* the step is a call of setSections, by the page or by its listener
SetSectionsStep == constructed /\ last'.op = "setSections" /\ event' = event

\* i is a blank filler index of the current list
BlankIndex(i) == data # NullData /\ Len(data) <= i /\ i < sectionCount - 1

\* the section--selected flags of the rendered sections
PulseFlags == [j \in 1..Len(elements) |-> elements[j].selected]

\* C1: while the wheel is locked, a key press, a click on a section or the
\* activation of a link emits no section-select event and changes no state
\* of the widget, however the wheel became locked.
C1_LockedIgnoresSelection ==
   [][(SelectStep /\ isLocked) => (event' = <<>> /\ wvars' = wvars)]_vars

\* C2: while unlocked with data set, a selection resolved to index i emits
\* exactly one event: with value -1 when i is the back index sectionCount - 1,
\* with the value of section i of the list when i is a selectable section.
C2_SelectionValue ==
   (last.op \in SelectOps /\ ~last.flag /\ data # NullData) =>
      /\ (last.index = sectionCount - 1 => last.emitted = <<BackValue>>)
      /\ (/\ last.index \in 0..(Len(data) - 1)
          /\ At(data, last.index).key # "")
            => last.emitted = <<At(data, last.index).value>>

C2_Witness ==
   /\ last.op = "click"
   /\ ~last.flag
   /\ Len(data) = 2
   /\ last.index = 1
   /\ event = <<2>>
   /\ last.emitted = event

\* the configurations the documentation of the element allows: a dynamic
\* section count, or a section-count attribute greater than zero
DocumentedConfiguration ==
   ~staticSectionCount \/ (sectionCountOption.kind = "num" /\ sectionCountOption.n > 0)

\* C3: in every unlocked state, whatever the configuration (fixed or dynamic
\* count, auto-lock or not) and whether or not data is set, a Backspace key
\* press emits section-select with value -1.
C3_BackspaceEmitsBack ==
   (/\ DocumentedConfiguration
    /\ last.op = "key"
    /\ last.key = "Backspace"
    /\ ~last.flag) => last.emitted = <<BackValue>>

\* C4: setSections accepts a list with a section whose key is the empty
\* string, and no key press, click or activation then selects that section.
EmptyKeyItem == Item({"value", "text", "key"}, 1, "one", "", "")
EmptyKeyInputs ==
   { raw \in RawInputs :
        /\ raw.type = "array"
        /\ \E i \in 1..Len(raw.items) : raw.items[i] = EmptyKeyItem
        /\ \A i \in 1..Len(raw.items) : raw.items[i] \in ValidItems \cup {EmptyKeyItem} }
C4_EmptyKeyAccepted ==
   [][/\ \A raw \in EmptyKeyInputs :
            (~tooManyOptions(W, raw.items) /\ SetSections(raw)) => ~last'.threw
      /\ (/\ SelectStep
          /\ last'.index \in 0..(Len(data) - 1)
          /\ At(data, last'.index).key = "") => event' = <<>>]_vars

\* C5: with a fixed section count, selecting a blank index (list length <= i
\* < sectionCount - 1) emits no event and leaves the lock state, the pulse
\* flags, hoverIndex and pointerRotation unchanged, with auto-lock too.
C5_BlankSelectionIgnored ==
   [][(SelectStep /\ staticSectionCount /\ BlankIndex(last'.index)) =>
         /\ event' = <<>>
         /\ isLocked' = isLocked
         /\ svgLocked' = svgLocked
         /\ PulseFlags' = PulseFlags
         /\ timers' = timers
         /\ prevHoverIndex' = prevHoverIndex
         /\ currSectionPointerRotation' = currSectionPointerRotation]_vars

C5_Witness ==
   /\ staticSectionCount
   /\ autoLockWheel
   /\ ~isLocked
   /\ last.op = "click"
   /\ BlankIndex(last.index)
   /\ prevHoverIndex # 0

\* C6: with auto-lock, a selection that emits leaves the wheel locked and a
\* successful setSections leaves it unlocked; without auto-lock neither a
\* selection nor setSections changes the lock state.
C6_AutoLock ==
   [][/\ (autoLockWheel /\ SelectStep /\ event' # <<>>) => isLocked'
      /\ (autoLockWheel /\ SetSectionsStep /\ ~last'.threw) => ~isLocked'
      /\ (~autoLockWheel /\ (SelectStep \/ SetSectionsStep))
            => isLocked' = isLocked]_vars

C6_Witness ==
   /\ autoLockWheel
   /\ last.op \in SelectOps
   /\ ~last.flag
   /\ event # <<>>
   /\ isLocked

\* C7: a setSections call that fails validation leaves the list, the section
\* count, the derived constants, hoverIndex, pointerRotation, the lock state
\* and the rendered elements as they were.
C7_RejectedSetSectionsChangesNothing ==
   [][(SetSectionsStep /\ last'.key = "setData") => wvars' = wvars]_vars

C7_Witness ==
   /\ last.op = "setSections"
   /\ last.key = "setData"
   /\ last.threw
   /\ Len(data) = 2
   /\ prevHoverIndex # 0
   /\ \E j \in 1..Len(timers) : timers[j] > 0

\* C8: with data set, sectionCount is list length + 1 in dynamic mode; in
\* fixed mode it is the section-count attribute + 1, it never changes, and
\* the list is non-empty and no longer than sectionCount - 1.
C8_SectionCount ==
   /\ [](data # NullData =>
           IF ~staticSectionCount
           THEN sectionCount = Len(data) + 1
           ELSE /\ sectionCountOption.kind = "num"
                /\ sectionCount = sectionCountOption.n + 1
                /\ Len(data) >= 1
                /\ Len(data) <= sectionCount - 1)
   /\ [][staticSectionCount => sectionCount' = sectionCount]_vars

C8_Witness ==
   /\ staticSectionCount
   /\ Len(data) = sectionCount - 1
   /\ Len(data) = MaxLen
   /\ last.op = "setSections"
   /\ last.key = "setData"

\* C9: a successful setSections resets hoverIndex and pointerRotation to 0
\* exactly when it changes sectionCount; otherwise both keep their values.
C9_ResetIffCountChanged ==
   [][(SetSectionsStep /\ ~last'.threw) =>
         IF sectionCount' # sectionCount
         THEN prevHoverIndex' = 0 /\ currSectionPointerRotation' = 0
         ELSE /\ prevHoverIndex' = prevHoverIndex
              /\ currSectionPointerRotation' = currSectionPointerRotation]_vars

C9_Witness ==
   /\ last.op = "setSections"
   /\ ~last.threw
   /\ ~staticSectionCount
   /\ prevHoverIndex # 0
   /\ currSectionPointerRotation # 0

\* C10: for prev # new the hover distance is one of direct, forward-wrap and
\* backward-wrap, none of the three is smaller in magnitude, and its
\* magnitude is at most half of sectionCount; 6 sections, 0 to 4, gives -2.
C10_ShortestPath ==
   (fnOut # <<>> /\ fnIn[2] # fnIn[3]) =>
      LET n == fnIn[1]
          prev == fnIn[2]
          new == fnIn[3]
          d == fnOut[1]
          candidates == {new - prev, n - prev + new, -(n + prev - new)}
      IN /\ d \in candidates
         /\ \A c \in candidates : Abs(d) <= Abs(c)
         /\ 2 * Abs(d) <= n
         /\ (n = 6 /\ prev = 0 /\ new = 4) => d = -2

C10_Witness == fnIn = <<6, 0, 4>> /\ fnOut = <<-2>>

\* C11: right after construction the wheel is locked, unless section data
\* was supplied through the data attribute, in which case it is unlocked.
C11_InitialLock ==
   (last.op = "constructor" /\ constructed) => (isLocked <=> ~last.flag)

C11_Witness ==
   /\ last.op = "constructor"
   /\ constructed
   /\ last.flag
   /\ ~isLocked
   /\ Len(elements) = sectionCount
   /\ sectionCount > 1

\* C12: toggleLockWheel(x) changes nothing when the wheel is already in
\* state x; and in every reachable state every rendered section link has
\* tabindex 0 exactly when the wheel is unlocked and -1 exactly when locked.
C12_TabReachability ==
   /\ [](\A j \in 1..Len(elements) :
            /\ elements[j].tabindex = "0" <=> ~isLocked
            /\ elements[j].tabindex = "-1" <=> isLocked)
   /\ [][(constructed /\ last'.op = "toggleLockWheel" /\ last'.flag = isLocked)
            => wvars' = wvars]_vars

C12_Witness ==
   /\ last.op = "toggleLockWheel"
   /\ last.flag
   /\ isLocked
   /\ Len(elements) > 1
   /\ \A j \in 1..Len(elements) : elements[j].tabindex = "-1"
   /\ \E j \in 1..Len(elements) : elements[j].empty

\* C13: a wheel without dynamic-section-count is constructed only when
\* section-count is defined and is a number greater than zero: no fixed-count
\* wheel exists with a missing, non-numeric, zero or negative section-count.
C13_SectionCountPositive ==
   (constructed /\ staticSectionCount) =>
      (sectionCountOption.kind = "num" /\ sectionCountOption.n > 0)


\* C14: a constructed widget owns exactly one keydown listener until it is
\* disconnected and a construction that throws registers none; disconnecting
\* deregisters the listener for good, and from then on no key press is
\* processed by the instance or emits a section-select event.
C14_KeyboardListener ==
   /\ [](~constructed => keydownListeners = 0)
   /\ []((constructed /\ last.op = "constructor") => keydownListeners = 1)
   /\ [](keydownListeners <= 1)
   /\ [](~connected => last.op # "key")
   /\ [][/\ last'.op = "disconnect" => keydownListeners' = 0
         /\ last'.op # "disconnect" => keydownListeners' = keydownListeners
         /\ (keydownListeners = 0 /\ last'.op \in {"key", "keyUnheard"})
               => (wvars' = wvars /\ event' = <<>>)]_vars

C14_Witness ==
   /\ constructed
   /\ connected
   /\ keydownListeners = 0
   /\ ~isLocked
   /\ last.op = "keyUnheard"
   /\ last.key = "a"
   /\ data # NullData
   /\ At(data, 0).key = "a"

\* C15: when two hover candidates have equal smallest magnitude the winner is
\* the first minimal one in the order forward-wrap, backward-wrap, direct:
\* direct is chosen only when strictly smaller in magnitude than both wraps.
C15_FirstMinimalWins ==
   (fnOut # <<>> /\ fnIn[2] # fnIn[3]) =>
      LET n == fnIn[1]
          prev == fnIn[2]
          new == fnIn[3]
          cands == <<n - prev + new, -(n + prev - new), new - prev>>
          least == Min({ Abs(cands[k]) : k \in 1..3 })
          first == Min({ k \in 1..3 : Abs(cands[k]) = least })
      IN /\ fnOut[1] = cands[first]
         /\ fnOut[1] = cands[3] =>
               (Abs(cands[3]) < Abs(cands[1]) /\ Abs(cands[3]) < Abs(cands[2]))

\* the candidate of least magnitude for a move from prev to new, when one
\* candidate is strictly the least
StrictlyShortest(n, prev, new) ==
   LET cands == {new - prev, n - prev + new, -(n + prev - new)}
   IN { d \in cands : \A c \in cands \ {d} : Abs(d) < Abs(c) }

\* C16: a hover on index i changes neither hoverIndex nor pointerRotation
\* when i is the current hoverIndex or a blank filler index; any other hover
\* on an index below sectionCount sets hoverIndex to i and adds the signed
\* number of steps to pointerRotation, which is not normalised.
C16_HoverFrame ==
   [][(constructed /\ last'.op = "hover") =>
         LET i == last'.index
             steps == currSectionPointerRotation' - currSectionPointerRotation
             cands == {i - prevHoverIndex, sectionCount - prevHoverIndex + i,
                       -(sectionCount + prevHoverIndex - i)}
         IN /\ ~last'.threw
            /\ i \in 0..(sectionCount - 1)
            /\ UNCHANGED <<staticSectionCount, autoLockWheel, data, sectionCount,
                           angleStep, isLocked, svgLocked, elements, timers,
                           staleTimers, event>>
            /\ IF i = prevHoverIndex \/ BlankIndex(i)
               THEN /\ prevHoverIndex' = prevHoverIndex
                    /\ currSectionPointerRotation' = currSectionPointerRotation
               ELSE /\ prevHoverIndex' = i
                    /\ steps \in cands
                    /\ \A c \in cands : Abs(steps) <= Abs(c)
                    /\ StrictlyShortest(sectionCount, prevHoverIndex, i) \subseteq {steps}]_vars

\* one step backwards from section 0 of three: the rotation is -1 step
\* (-120 degrees), not 2 steps (240 degrees)
C16_Witness ==
   /\ last.op = "hover"
   /\ sectionCount = 3
   /\ last.index = 2
   /\ prevHoverIndex = 2
   /\ currSectionPointerRotation = -1

\* C17: while unlocked, a key press other than Backspace selects the section
\* of lowest index whose key is the pressed key, and changes nothing and
\* emits nothing when no section of the list has the key; a key press never
\* selects a blank filler section.
C17_KeyResolvesFirstMatch ==
   [][(SelectStep /\ last'.op = "key" /\ last'.key # "Backspace" /\ ~isLocked) =>
         LET hits == { i \in 0..(Len(data) - 1) : At(data, i).key = last'.key }
             lowest == CHOOSE m \in hits : \A h \in hits : m <= h
         IN IF hits = {}
            THEN event' = <<>> /\ wvars' = wvars
            ELSE /\ event' = <<At(data, lowest).value>>
                 /\ At(elements', lowest).selected
                 /\ At(timers', lowest) = 1
                 /\ \A i \in Indices \ {lowest} :
                       /\ At(elements', i).selected = At(elements, i).selected
                       /\ At(timers', i) = At(timers, i)]_vars

\* two sections with the key "s", the second by the default-key table
C17_Witness ==
   /\ last.op = "key"
   /\ last.key = "s"
   /\ ~last.flag
   /\ Len(data) = 2
   /\ At(data, 0).key = "s"
   /\ At(data, 1).key = "s"
   /\ At(data, 0).value # At(data, 1).value
   /\ event = <<At(data, 0).value>>
   /\ ~At(elements, 1).selected

\* the pulse of section i is pending: flag set, clear-timer not yet fired
Pulsing(i) == i \in Indices /\ At(elements, i).selected /\ At(timers, i) > 0

\* C18: while the pulse of a section is pending, a second selection of that
\* section is not processed again (no section-select event for it), whereas
\* the selection of another section in that time is processed as usual.
C18_NoReselectWhilePulsing ==
   [][(SelectStep /\ ~isLocked /\ data # NullData /\ last'.index \in Indices) =>
         IF Pulsing(last'.index)
         THEN event' = <<>>
         ELSE (~BlankIndex(last'.index) /\ \E i \in Indices : Pulsing(i))
                 => /\ event' # <<>>
                    /\ At(elements', last'.index).selected
                    /\ At(timers', last'.index) > 0]_vars

\* section element i of the current wheel carries the selected flag
Flagged(i) == i \in Indices /\ At(elements, i).selected

\* the step replaces the section elements (full rebuild)
RebuildStep ==
   /\ SetSectionsStep
   /\ last'.key # "setData"
   /\ (data = NullData \/ sectionCount' # sectionCount)

\* C19: every pulse that is started is eventually cleared; at most one
\* clear-timer is pending per section element, and exactly while its flag is
\* set; a rebuild leaves every section unflagged, and a timer that fires
\* after a rebuild changes no flag of the rebuilt wheel.
C19_PulseCleared ==
   /\ [](\A i \in Indices :
            /\ At(timers, i) <= 1
            /\ At(timers, i) = 1 <=> At(elements, i).selected)
   /\ [][/\ RebuildStep => \A j \in 1..Len(elements') : ~elements'[j].selected
         /\ (constructed /\ last'.op = "staleTimeout")
               => (PulseFlags' = PulseFlags /\ timers' = timers)]_vars
   /\ \A i \in AllIndices : Flagged(i) ~> ~Flagged(i)

\* a stale timeout fires while section 0 of the rebuilt wheel is pulsing
C19_Witness ==
   /\ last.op = "staleTimeout"
   /\ last.index = 0
   /\ Flagged(0)
   /\ At(timers, 0) = 1

\* C20: after every successful setSections, by either path, there is one
\* section per index below sectionCount; index i is marked empty with cleared
\* label and key text exactly when i is at or beyond the list length and is
\* not the back section, and otherwise shows the text and key of list entry
\* i; the back section is never marked empty.
C20_BlankClassification ==
   (constructed /\ last.op = "setSections" /\ ~last.threw) =>
      /\ Len(elements) = sectionCount
      /\ \A i \in 0..(sectionCount - 1) :
            LET e == At(elements, i)
            IN IF i = sectionCount - 1
               THEN ~e.empty
               ELSE IF i >= Len(data)
               THEN e.empty /\ e.contentText = "" /\ e.keyText = ""
               ELSE /\ ~e.empty
                    /\ e.contentText = At(data, i).text
                    /\ e.keyText = At(data, i).key

\* content-only update to a shorter list: section 1 was selected while it
\* showed an entry, and its pulse is still pending now that it is blank
C20_Witness ==
   /\ last.op = "setSections"
   /\ ~last.threw
   /\ staticSectionCount
   /\ sectionCount = 3
   /\ Len(data) = 1
   /\ At(elements, 1).selected
   /\ At(elements, 1).empty
   /\ At(elements, 0).contentText = "two"

C22_DefaultKeysAssigned ==
   fnOut # <<>> =>
      /\ fnOut = <<FALSE>>
      /\ Len(data) = fnIn[1]
      /\ \A i \in 0..(Len(data) - 1) :
            /\ At(data, i).key # Undefined
            /\ KeyLength(At(data, i).key) = 1
            /\ At(elements, i).keyText = At(data, i).key

\* C23: with auto-lock the wheel is locked before the section-select event
\* is delivered; a setSections call of the listener unlocks it, and it is
\* still unlocked when the selection handling has finished; a key press
\* selects only while unlocked and leaves the wheel locked, and only
\* setSections or toggleLockWheel(false) unlocks: at most one key-press
\* selection per unlock.
C23_AutoLockCycle ==
   [][autoLockWheel =>
         /\ (SelectStep /\ event' # <<>>) => (isLocked' /\ svgLocked')
         /\ (event # <<>> /\ SetSectionsStep /\ ~last'.threw) => ~isLocked'
         /\ (event # <<>> /\ event' = <<>>) => isLocked' = isLocked
         /\ (SelectStep /\ last'.op = "key" /\ event' # <<>>) => (~isLocked /\ isLocked')
         /\ (isLocked /\ ~isLocked') =>
               \/ last'.op = "setSections" /\ ~last'.threw
               \/ last'.op = "toggleLockWheel" /\ ~last'.flag]_vars

\* the listener has called setSections and returned: unlocked again
C23_Witness ==
   /\ autoLockWheel
   /\ last.op = "setSections"
   /\ last.flag
   /\ ~last.threw
   /\ event = <<>>
   /\ ~isLocked
   /\ ~svgLocked
   /\ \E j \in 1..Len(timers) : timers[j] > 0

\* C24: in every reachable state with data set the accumulated steps of the
\* pointer rotation are congruent to hoverIndex modulo sectionCount (the
\* rotation is congruent to hoverIndex x 360 / sectionCount modulo 360).
C24_PointerOnHoverIndex ==
   (constructed /\ data # NullData) =>
      (currSectionPointerRotation - prevHoverIndex) % sectionCount = 0

\* the pointer went backwards through zero and a content-only update and a
\* lock toggle followed
C24_Witness ==
   /\ staticSectionCount
   /\ sectionCount = 3
   /\ prevHoverIndex = 2
   /\ currSectionPointerRotation = -1
   /\ last.op = "toggleLockWheel"
   /\ Len(data) = 1

\* C25: in every reachable state with data set, 0 <= hoverIndex <
\* sectionCount, also after a setSections in dynamic mode that shrinks the
\* count below the index hovered before.
C25_HoverIndexInRange ==
   (constructed /\ data # NullData) =>
      (0 <= prevHoverIndex /\ prevHoverIndex < sectionCount)

\* dynamic mode: the pointer was on index 2 when a list of one section was
\* set (last.index is the hoverIndex the call found)
C25_Witness ==
   /\ ~staticSectionCount
   /\ last.op = "setSections"
   /\ ~last.threw
   /\ last.index = 2
   /\ sectionCount = 2
   /\ prevHoverIndex = 0

\* C26: in every reachable state, the initial state and the state after the
\* first setSections of a wheel constructed without data included, the svg
\* carries the class unrawheel--locked exactly when the wheel is locked.
C26_LockedMarker == constructed => (svgLocked <=> isLocked)

\* a key step the document delivers while the element is connected,
\* unlocked, with data, for a key some section has
MatchingKeyStep ==
   /\ constructed
   /\ event = <<>>
   /\ last'.op \in {"key", "keyUnheard"}
   /\ connected
   /\ ~isLocked
   /\ data # NullData
   /\ \E i \in 0..(Len(data) - 1) : At(data, i).key = last'.key

\* C27: whenever the element is connected, unlocked and has data, a key
\* press matching the key of a section emits section-select, also after the
\* element was disconnected and connected again.
C27_KeysWhileConnected == [][MatchingKeyStep => event' # <<>>]_vars

====
